---- MODULE Spec2Model ----
(***************************************************************************)
(* AEAD request path of the CryptoAuthLib provider                         *)
(* (src/providers/cryptoauthlib/aead.rs).                                  *)
(*                                                                         *)
(* One state of the model is one finished call of                          *)
(* psa_aead_encrypt_internal or psa_aead_decrypt_internal: the request,    *)
(* what the collaborators returned, the calls that were made to them in    *)
(* order, the parameters handed to the device, and the value returned to   *)
(* the caller (or the panic that ended the call).  Both handlers are       *)
(* synchronous functions on &self, so each is one action.                  *)
(***************************************************************************)
EXTENDS Integers, Sequences, FiniteSets, TLC

(***************************************************************************)
(* Bounds of the model.                                                    *)
(***************************************************************************)
\* plaintexts and caller-supplied ciphertexts have at most MaxLen bytes
MaxLen == 2
\* shortened tag lengths 0..MaxTag are drawn besides the sampled larger ones
MaxTag == 2

(***************************************************************************)
(* Program constants.                                                      *)
(***************************************************************************)
DEFAULT_TAG_LENGTH == 16
\* number of values of the u8 that `tag_length as u8` narrows to
U8_RANGE == 256

(***************************************************************************)
(* Option<T>, Result<T, E> and byte sequences.                             *)
(***************************************************************************)
Some(v) == [some |-> TRUE, val |-> v]
None == [some |-> FALSE, val |-> 0]

Ok(data) == [kind |-> "Ok", status |-> "Success", data |-> data]
Err(status) == [kind |-> "Err", status |-> status, data |-> <<>>]
Panic(message) == [kind |-> "Panic", status |-> message, data |-> <<>>]

RECURSIVE SumSeq(_)
SumSeq(s) == IF s = <<>> THEN 0 ELSE s[1] + SumSeq(Tail(s))

SampleBytes == {0, 255}
Buffers == UNION {[1..n -> SampleBytes] : n \in 0..MaxLen}

(***************************************************************************)
(* Algorithm descriptors: parsec_interface's Aead.                         *)
(***************************************************************************)
AeadWithDefaultLengthTag == {"Ccm", "Gcm", "Chacha20Poly1305"}
TagLengths == (0..MaxTag) \cup {12, U8_RANGE, U8_RANGE + 12}
Aead ==
    [kind : {"AeadWithDefaultLengthTag"}, aead_alg : AeadWithDefaultLengthTag]
    \cup [kind : {"AeadWithShortenedTag"}, aead_alg : AeadWithDefaultLengthTag,
          tag_length : TagLengths]

\* faulty variant: the shortened-tag arms return the default length
get_tag_length_ignores_shortened(alg) ==
    IF alg.aead_alg \in {"Ccm", "Gcm"} THEN Some(DEFAULT_TAG_LENGTH) ELSE None

\* faulty variant: the catch-all arm returns the default length instead of None
get_tag_length_accepts_any(alg) ==
    IF alg.kind = "AeadWithShortenedTag" /\ alg.aead_alg \in {"Ccm", "Gcm"}
    THEN Some(alg.tag_length)
    ELSE Some(DEFAULT_TAG_LENGTH)

get_tag_length(alg) ==
    IF alg.kind = "AeadWithDefaultLengthTag" /\ alg.aead_alg = "Ccm"
    THEN Some(DEFAULT_TAG_LENGTH)
    ELSE IF alg.kind = "AeadWithDefaultLengthTag" /\ alg.aead_alg = "Gcm"
    THEN Some(DEFAULT_TAG_LENGTH)
    ELSE IF alg.kind = "AeadWithShortenedTag" /\ alg.aead_alg = "Ccm"
    THEN Some(alg.tag_length)
    ELSE IF alg.kind = "AeadWithShortenedTag" /\ alg.aead_alg = "Gcm"
    THEN Some(alg.tag_length)
    ELSE None

\* faulty variant: only the default-length CCM descriptor selects CCM
is_ccm_selected_default_only(alg) ==
    alg.kind = "AeadWithDefaultLengthTag" /\ alg.aead_alg = "Ccm"

is_ccm_selected(alg) ==
    \/ alg.kind = "AeadWithDefaultLengthTag" /\ alg.aead_alg = "Ccm"
    \/ alg.kind = "AeadWithShortenedTag" /\ alg.aead_alg = "Ccm"

(***************************************************************************)
(* What the collaborators can return.  The key info store, the request     *)
(* validator and the device are consumed through their contracts: each     *)
(* call either succeeds or fails with one of its own errors.               *)
(***************************************************************************)
KeyIdReturns ==
    {[ok |-> TRUE, val |-> 1, status |-> "Success"],
     [ok |-> FALSE, val |-> 0, status |-> "PsaErrorDoesNotExist"]}
KeyAttributesReturns ==
    {[ok |-> TRUE, status |-> "Success"],
     [ok |-> FALSE, status |-> "KeyInfoManagerError"]}
ValidateReturns ==
    {[ok |-> TRUE, status |-> "Success"],
     [ok |-> FALSE, status |-> "PsaErrorNotPermitted"]}
DeviceErrors == {"AtcaBadParam", "AtcaCommFail"}
DeviceBehaviours == {"Works"} \cup DeviceErrors

\* overflow_checks: whether the build checks integer overflow (debug) or
\* wraps (release)
Envs ==
    [get_key_id : KeyIdReturns, get_key_attributes : KeyAttributesReturns,
     validate : ValidateReturns, device : DeviceBehaviours,
     overflow_checks : BOOLEAN]

Nonces == {<<7>>, <<7, 9>>}
AssociatedData == {<<>>, <<5>>}
KeyNames == {"aead_key"}

EncryptOperations ==
    [alg : Aead, key_name : KeyNames, nonce : Nonces,
     additional_data : AssociatedData, plaintext : Buffers]
DecryptOperations ==
    [alg : Aead, key_name : KeyNames, nonce : Nonces,
     additional_data : AssociatedData, ciphertext : Buffers]

(***************************************************************************)
(* The device: an AEAD primitive that encrypts the buffer in place and     *)
(* returns a tag of the length its parameters ask for, and on decrypt      *)
(* recomputes the tag over the payload and compares it with the supplied   *)
(* one.  Any call may instead fail with a device error.                    *)
(***************************************************************************)
VariantCode(variant) == IF variant = "Ccm" THEN 3 ELSE 5

KeyStream(variant, key_id, nonce, i) ==
    (key_id * 31 + SumSeq(nonce) * 7 + VariantCode(variant) + i * 13) % U8_RANGE

DeviceCipher(variant, key_id, nonce, buffer) ==
    [i \in 1..Len(buffer) |->
        (buffer[i] + KeyStream(variant, key_id, nonce, i)) % U8_RANGE]

DeviceDecipher(variant, key_id, nonce, buffer) ==
    [i \in 1..Len(buffer) |->
        (buffer[i] + U8_RANGE - KeyStream(variant, key_id, nonce, i)) % U8_RANGE]

DeviceTag(variant, key_id, nonce, additional_data, encrypted, n) ==
    [i \in 1..n |->
        (key_id * 17 + SumSeq(nonce) * 3 + SumSeq(additional_data) * 5
            + SumSeq(encrypted) * 11 + VariantCode(variant) + i * 29) % U8_RANGE]

NoDeviceRet == [called |-> FALSE]

device_aead_encrypt(algorithm, key_id, buffer, behaviour) ==
    IF behaviour \in DeviceErrors
    THEN [called |-> TRUE, ok |-> FALSE, verified |-> FALSE, tag |-> <<>>,
          buffer |-> buffer, error |-> behaviour]
    ELSE LET p == algorithm.param
             encrypted == DeviceCipher(algorithm.variant, key_id, p.nonce, buffer)
         IN [called |-> TRUE, ok |-> TRUE, verified |-> FALSE,
             tag |-> DeviceTag(algorithm.variant, key_id, p.nonce,
                               p.additional_data.val, encrypted, p.tag_length.val),
             buffer |-> encrypted, error |-> "AtcaSuccess"]

device_aead_decrypt(algorithm, key_id, buffer, behaviour) ==
    IF behaviour \in DeviceErrors
    THEN [called |-> TRUE, ok |-> FALSE, verified |-> FALSE, tag |-> <<>>,
          buffer |-> buffer, error |-> behaviour]
    ELSE LET p == algorithm.param
             expected == DeviceTag(algorithm.variant, key_id, p.nonce,
                                   p.additional_data.val, buffer, Len(p.tag.val))
         IN IF expected = p.tag.val
            THEN [called |-> TRUE, ok |-> TRUE, verified |-> TRUE, tag |-> <<>>,
                  buffer |-> DeviceDecipher(algorithm.variant, key_id, p.nonce, buffer),
                  error |-> "AtcaSuccess"]
            ELSE [called |-> TRUE, ok |-> TRUE, verified |-> FALSE, tag |-> <<>>,
                  buffer |-> buffer, error |-> "AtcaSuccess"]

(***************************************************************************)
(* Steps shared by the two handlers.                                       *)
(***************************************************************************)
\* faulty variant: a validation failure is not propagated
resolve_and_validate_skips_check(env) ==
    IF ~env.get_key_id.ok
    THEN [ok |-> FALSE, calls |-> <<"get_key_id">>,
          status |-> env.get_key_id.status, key_id |-> 0]
    ELSE IF ~env.get_key_attributes.ok
    THEN [ok |-> FALSE, calls |-> <<"get_key_id", "get_key_attributes">>,
          status |-> env.get_key_attributes.status, key_id |-> 0]
    ELSE [ok |-> TRUE, calls |-> <<"get_key_id", "get_key_attributes", "validate">>,
          status |-> "Success", key_id |-> env.get_key_id.val]

\* get_key_id(..)?; get_key_attributes(..)?; op.validate(..)?
resolve_and_validate(env) ==
    IF ~env.get_key_id.ok
    THEN [ok |-> FALSE, calls |-> <<"get_key_id">>,
          status |-> env.get_key_id.status, key_id |-> 0]
    ELSE IF ~env.get_key_attributes.ok
    THEN [ok |-> FALSE, calls |-> <<"get_key_id", "get_key_attributes">>,
          status |-> env.get_key_attributes.status, key_id |-> 0]
    ELSE IF ~env.validate.ok
    THEN [ok |-> FALSE, calls |-> <<"get_key_id", "get_key_attributes", "validate">>,
          status |-> env.validate.status, key_id |-> 0]
    ELSE [ok |-> TRUE, calls |-> <<"get_key_id", "get_key_attributes", "validate">>,
          status |-> "Success", key_id |-> env.get_key_id.val]

\* `tag_length as u8`
as_u8(n) == n % U8_RANGE

\* AeadParam { nonce, tag_length: Some(tag_length as u8), additional_data, ..Default }
encrypt_param(op, tag_length) ==
    [nonce |-> op.nonce, tag_length |-> Some(as_u8(tag_length)), tag |-> None,
     additional_data |-> Some(op.additional_data)]

\* AeadParam { nonce, tag: Some(tag), additional_data, ..Default }
decrypt_param(op, tag) ==
    [nonce |-> op.nonce, tag_length |-> None, tag |-> Some(tag),
     additional_data |-> Some(op.additional_data)]

\* Gcm(aead_param_gcm), replaced by Ccm(aead_param_ccc) when CCM is selected
select_algorithm(alg, aead_param_gcm) ==
    LET aead_param_ccc == aead_param_gcm
    IN IF is_ccm_selected(alg)
       THEN [variant |-> "Ccm", param |-> aead_param_ccc]
       ELSE [variant |-> "Gcm", param |-> aead_param_gcm]

NoDeviceCall == [made |-> FALSE]

(***************************************************************************)
(* psa_aead_encrypt_internal                                               *)
(***************************************************************************)
\* Ok(tag) => plaintext.extend(tag); Err(error) => PsaErrorGenericError
encrypt_result(ret) ==
    IF ret.ok
    THEN Ok(ret.buffer \o ret.tag)
    ELSE Err("PsaErrorGenericError")

psa_aead_encrypt_internal(op, env) ==
    LET tag_length == get_tag_length(op.alg)
    IN IF ~tag_length.some
       THEN [tag_length |-> tag_length,
             result |-> Err("PsaErrorNotSupported"), calls |-> <<>>,
             device_call |-> NoDeviceCall, device_ret |-> NoDeviceRet,
             log |-> <<"aead_encrypt failed, algorithm not supported">>]
       ELSE LET kv == resolve_and_validate(env)
            IN IF ~kv.ok
               THEN [tag_length |-> tag_length,
                     result |-> Err(kv.status), calls |-> kv.calls,
                     device_call |-> NoDeviceCall, device_ret |-> NoDeviceRet,
                     log |-> <<>>]
               ELSE LET aead_param_gcm == encrypt_param(op, tag_length.val)
                        aead_algorithm == select_algorithm(op.alg, aead_param_gcm)
                        plaintext == op.plaintext
                        ret == device_aead_encrypt(aead_algorithm, kv.key_id,
                                                   plaintext, env.device)
                    IN [tag_length |-> tag_length,
                        result |-> encrypt_result(ret),
                        calls |-> Append(kv.calls, "aead_encrypt"),
                        device_call |-> [made |-> TRUE, fn |-> "aead_encrypt",
                                         algorithm |-> aead_algorithm,
                                         key_id |-> kv.key_id, buffer |-> plaintext],
                        device_ret |-> ret,
                        log |-> IF ret.ok THEN <<>>
                                ELSE <<"aead_encrypt failed CAL error", ret.error>>]

(***************************************************************************)
(* psa_aead_decrypt_internal                                               *)
(***************************************************************************)
\* ciphertext.drain((ciphertext.len() - tag_length)..).collect(): usize
\* subtraction panics when overflow is checked; when it wraps, the start of
\* the range is 2^64 - (tag_length - len), beyond the end of the vector for
\* every usize tag_length, and Vec::drain panics.
split_ciphertext(ciphertext, tag_length, overflow_checks) ==
    IF Len(ciphertext) >= tag_length
    THEN LET start == Len(ciphertext) - tag_length
         IN [panic |-> FALSE, message |-> "",
             payload |-> SubSeq(ciphertext, 1, start),
             tag |-> SubSeq(ciphertext, start + 1, Len(ciphertext))]
    ELSE IF overflow_checks
    THEN [panic |-> TRUE, message |-> "attempt to subtract with overflow",
          payload |-> <<>>, tag |-> <<>>]
    ELSE [panic |-> TRUE, message |-> "range start index out of range",
          payload |-> <<>>, tag |-> <<>>]

\* faulty variant: an authentication failure gets a code of its own
decrypt_result_tells_auth_failure(ret) ==
    IF ret.ok /\ ret.verified THEN Ok(ret.buffer)
    ELSE IF ret.ok THEN Err("PsaErrorInvalidSignature")
    ELSE Err("PsaErrorGenericError")

\* Ok(true) => plaintext; Ok(false) and Err(error) => PsaErrorGenericError
decrypt_result(ret) ==
    IF ret.ok /\ ret.verified THEN Ok(ret.buffer)
    ELSE IF ret.ok THEN Err("PsaErrorGenericError")
    ELSE Err("PsaErrorGenericError")

decrypt_log(ret) ==
    IF ret.ok /\ ret.verified THEN <<>>
    ELSE IF ret.ok THEN <<"aead_decrypt authentication failed">>
    ELSE <<"aead_decrypt error", ret.error>>

psa_aead_decrypt_internal(op, env) ==
    LET tag_length == get_tag_length(op.alg)
    IN IF ~tag_length.some
       THEN [tag_length |-> tag_length,
             result |-> Err("PsaErrorNotSupported"), calls |-> <<>>,
             device_call |-> NoDeviceCall, device_ret |-> NoDeviceRet,
             log |-> <<"aead_decrypt failed, algorithm not supported">>]
       ELSE LET kv == resolve_and_validate(env)
            IN IF ~kv.ok
               THEN [tag_length |-> tag_length,
                     result |-> Err(kv.status), calls |-> kv.calls,
                     device_call |-> NoDeviceCall, device_ret |-> NoDeviceRet,
                     log |-> <<>>]
               ELSE LET split == split_ciphertext(op.ciphertext, tag_length.val,
                                                  env.overflow_checks)
                    IN IF split.panic
                       THEN [tag_length |-> tag_length,
                             result |-> Panic(split.message), calls |-> kv.calls,
                             device_call |-> NoDeviceCall,
                             device_ret |-> NoDeviceRet, log |-> <<>>]
                       ELSE LET aead_param_gcm == decrypt_param(op, split.tag)
                                aead_algorithm ==
                                    select_algorithm(op.alg, aead_param_gcm)
                                ret == device_aead_decrypt(aead_algorithm, kv.key_id,
                                                           split.payload, env.device)
                            IN [tag_length |-> tag_length,
                                result |-> decrypt_result(ret),
                                calls |-> Append(kv.calls, "aead_decrypt"),
                                device_call |->
                                    [made |-> TRUE, fn |-> "aead_decrypt",
                                     algorithm |-> aead_algorithm,
                                     key_id |-> kv.key_id,
                                     buffer |-> split.payload],
                                device_ret |-> ret,
                                log |-> decrypt_log(ret)]

(***************************************************************************)
(* State: the last call and, for a decrypt of an encrypt's output, the     *)
(* encrypt it came from.                                                   *)
(***************************************************************************)
VARIABLES
    phase,      \* "init", "encrypt", "decrypt", "roundtrip" or "tampered"
    op,         \* the request of the last call
    env,        \* what the collaborators return during the last call
    out,        \* the last call: the resolved tag_length, the result, the calls
                \* made, the device call and what it returned, the log
    source      \* the successful encrypt a roundtrip/tampered decrypt replays

vars == <<phase, op, env, out, source>>

NoOperation == [none |-> TRUE]
NoSource == [none |-> TRUE]

Init ==
    /\ phase = "init"
    /\ op = NoOperation
    /\ env = [get_key_id |-> [ok |-> TRUE, val |-> 1, status |-> "Success"],
              get_key_attributes |-> [ok |-> TRUE, status |-> "Success"],
              validate |-> [ok |-> TRUE, status |-> "Success"],
              device |-> "Works", overflow_checks |-> TRUE]
    /\ out = [tag_length |-> None, result |-> Ok(<<>>), calls |-> <<>>, device_call |-> NoDeviceCall,
              device_ret |-> NoDeviceRet, log |-> <<>>]
    /\ source = NoSource

\* a caller sends an encrypt request
Encrypt ==
    /\ phase = "init"
    /\ \E o \in EncryptOperations, e \in Envs :
        /\ op' = o
        /\ env' = e
        /\ out' = psa_aead_encrypt_internal(o, e)
    /\ phase' = "encrypt"
    /\ UNCHANGED source

\* a caller sends a decrypt request with a ciphertext of its own
Decrypt ==
    /\ phase = "init"
    /\ \E o \in DecryptOperations, e \in Envs :
        /\ op' = o
        /\ env' = e
        /\ out' = psa_aead_decrypt_internal(o, e)
    /\ phase' = "decrypt"
    /\ UNCHANGED source

DecryptRequestFor(enc_op, ciphertext) ==
    [alg |-> enc_op.alg, key_name |-> enc_op.key_name, nonce |-> enc_op.nonce,
     additional_data |-> enc_op.additional_data, ciphertext |-> ciphertext]

\* the ciphertext of a successful encrypt is decrypted under the same key,
\* nonce, associated data and algorithm, with the same collaborators
DecryptEncrypted ==
    /\ phase = "encrypt"
    /\ out.result.kind = "Ok"
    /\ \E checks \in BOOLEAN :
        LET o == DecryptRequestFor(op, out.result.data)
            e == [env EXCEPT !.overflow_checks = checks]
        IN /\ op' = o
           /\ env' = e
           /\ out' = psa_aead_decrypt_internal(o, e)
    /\ source' = [none |-> FALSE, op |-> op, ciphertext |-> out.result.data,
                  position |-> 0, bit |-> 0]
    /\ phase' = "roundtrip"

Bits == {1, 2, 4, 8, 16, 32, 64, 128}

FlipBit(byte, bit) ==
    IF (byte \div bit) % 2 = 1 THEN byte - bit ELSE byte + bit

\* the last tag_length bytes of a ciphertext (all of it, if it is shorter)
TagRegion(ciphertext, tag_length) ==
    {i \in 1..Len(ciphertext) : i > Len(ciphertext) - tag_length}

\* as DecryptEncrypted, after one bit of the ciphertext's tag region changed
DecryptTampered ==
    /\ phase = "encrypt"
    /\ out.result.kind = "Ok"
    /\ \E checks \in BOOLEAN, bit \in Bits,
          i \in TagRegion(out.result.data, get_tag_length(op.alg).val) :
        LET c == [out.result.data EXCEPT ![i] = FlipBit(@, bit)]
            o == DecryptRequestFor(op, c)
            e == [env EXCEPT !.overflow_checks = checks]
        IN /\ op' = o
           /\ env' = e
           /\ out' = psa_aead_decrypt_internal(o, e)
           /\ source' = [none |-> FALSE, op |-> op,
                         ciphertext |-> out.result.data,
                         position |-> i, bit |-> bit]
    /\ phase' = "tampered"

Next == Encrypt \/ Decrypt \/ DecryptEncrypted \/ DecryptTampered

Spec == Init /\ [][Next]_vars

(***************************************************************************)
(* Properties.                                                             *)
(***************************************************************************)
DecryptPhases == {"decrypt", "roundtrip", "tampered"}
Called == phase # "init"
Supported == op.alg.aead_alg \in {"Ccm", "Gcm"}
ResolutionSucceeds ==
    env.get_key_id.ok /\ env.get_key_attributes.ok /\ env.validate.ok

\* C1: a decrypt request whose algorithm resolves to a tag length T, whose key
\* resolution and validation succeed and whose ciphertext is shorter than T
\* is rejected with an error result, without a panic and without a device call.
C1_ShortCiphertextRejected ==
    (/\ phase \in DecryptPhases
     /\ Supported
     /\ ResolutionSucceeds
     /\ Len(op.ciphertext) < out.tag_length.val)
    => (out.result.kind = "Err" /\ ~out.device_call.made)

\* C2: with a working device, decrypting the ciphertext of a successful
\* encrypt under the same key, nonce, associated data and algorithm returns
\* the plaintext that was encrypted.
C2_RoundTrip ==
    (phase = "roundtrip" /\ env.device = "Works")
    => out.result = Ok(source.op.plaintext)

\* C3: for a descriptor outside the CCM and GCM families both handlers return
\* NotSupported and call neither the key info store, nor the validator, nor
\* the device.
C3_UnsupportedAlgorithm ==
    (Called /\ ~Supported)
    => (/\ out.result = Err("PsaErrorNotSupported")
        /\ out.calls = <<>>
        /\ ~out.device_call.made)

C3_Witness ==
    /\ phase = "decrypt"
    /\ op.alg.kind = "AeadWithShortenedTag"
    /\ op.alg.aead_alg = "Chacha20Poly1305"
    /\ ResolutionSucceeds
    /\ env.device = "Works"
    /\ out.result = Err("PsaErrorNotSupported")

\* C4: once the device has been called, an authentication failure and every
\* device error of decrypt, and every device error of encrypt, give the caller
\* the same result, PsaErrorGenericError, whatever the device error was.
C4_FailureIndistinguishable ==
    (/\ Called
     /\ out.device_ret.called
     /\ \/ ~out.device_ret.ok
        \/ phase \in DecryptPhases /\ ~out.device_ret.verified)
    => out.result = Err("PsaErrorGenericError")

C4_Witness ==
    /\ phase = "decrypt"
    /\ out.device_ret.called
    /\ out.device_ret.ok
    /\ ~out.device_ret.verified
    /\ out.result = Err("PsaErrorGenericError")

\* the bytes of the ciphertext that are the tag the device returned
InReturnedTag == source.position > Len(source.op.plaintext)

\* C5: with a working device, decrypting the ciphertext of a successful
\* encrypt after one bit of its tag changed returns the generic failure: no
\* panic, no plaintext.
C5_TamperedTagFails ==
    (phase = "tampered" /\ env.device = "Works" /\ InReturnedTag)
    => out.result = Err("PsaErrorGenericError")

\* C6: a successful encrypt returns the buffer the device encrypted in place
\* (as long as the plaintext) followed by the tag the device returned; when
\* that tag has the length asked of the device, the ciphertext is as long as
\* the plaintext plus the resolved tag length.
C6_CiphertextIsBufferThenTag ==
    (phase = "encrypt" /\ out.result.kind = "Ok")
    => (/\ out.result.data = out.device_ret.buffer \o out.device_ret.tag
        /\ Len(out.device_ret.buffer) = Len(op.plaintext)
        /\ (Len(out.device_ret.tag)
                = out.device_call.algorithm.param.tag_length.val
            => Len(out.result.data) = Len(op.plaintext) + out.tag_length.val))

\* C7: get_tag_length gives 16 for the default-length CCM and GCM descriptors,
\* the caller's length for the shortened CCM and GCM descriptors, and None for
\* every other descriptor, shortened ones included.
C7_TagLengthResolution ==
    Called
    => (/\ (op.alg.kind = "AeadWithDefaultLengthTag" /\ Supported
            => out.tag_length = [some |-> TRUE, val |-> 16])
        /\ (op.alg.kind = "AeadWithShortenedTag" /\ Supported
            => out.tag_length = [some |-> TRUE, val |-> op.alg.tag_length])
        /\ (~Supported => ~out.tag_length.some))

C7_Witness ==
    /\ phase = "encrypt"
    /\ op.alg.kind = "AeadWithShortenedTag"
    /\ op.alg.aead_alg = "Gcm"
    /\ op.alg.tag_length = 12
    /\ out.tag_length = [some |-> TRUE, val |-> 12]

\* the last n bytes of s
LastBytes(s, n) == SubSeq(s, Len(s) - n + 1, Len(s))

IsPrefix(s, t) == Len(s) <= Len(t) /\ s = SubSeq(t, 1, Len(s))

DeviceFunction == IF phase = "encrypt" THEN "aead_encrypt" ELSE "aead_decrypt"

\* C9: the calls of an operation are, in this order, get_key_id,
\* get_key_attributes, validate and the device call; the device is called at
\* most once and only after the other three succeeded; when one of the three
\* fails the operation returns its error unchanged and makes no later call.
C9_PipelineOrder ==
    Called
    => (/\ IsPrefix(out.calls, <<"get_key_id", "get_key_attributes", "validate",
                                 DeviceFunction>>)
        /\ out.device_call.made <=> Len(out.calls) = 4
        /\ out.device_call.made => ResolutionSucceeds
        /\ Supported
           => (/\ ~env.get_key_id.ok
                  => /\ out.calls = <<"get_key_id">>
                     /\ out.result = Err(env.get_key_id.status)
               /\ env.get_key_id.ok /\ ~env.get_key_attributes.ok
                  => /\ out.calls = <<"get_key_id", "get_key_attributes">>
                     /\ out.result = Err(env.get_key_attributes.status)
               /\ env.get_key_id.ok /\ env.get_key_attributes.ok /\ ~env.validate.ok
                  => /\ out.calls = <<"get_key_id", "get_key_attributes", "validate">>
                     /\ out.result = Err(env.validate.status)))

C9_Witness ==
    /\ phase = "encrypt"
    /\ Supported
    /\ env.get_key_id.ok
    /\ env.get_key_attributes.ok
    /\ ~env.validate.ok
    /\ env.device = "Works"
    /\ out.calls = <<"get_key_id", "get_key_attributes", "validate">>
    /\ out.result = Err("PsaErrorNotPermitted")

\* C10: the parameters an encrypt hands to the device carry the tag length
\* get_tag_length returned for the descriptor, for every shortened length, and
\* the request's nonce and associated data.
C10_DeviceTagLength ==
    (phase = "encrypt" /\ out.device_call.made)
    => LET p == out.device_call.algorithm.param
       IN /\ p.tag_length = out.tag_length
          /\ p.nonce = op.nonce
          /\ p.additional_data = [some |-> TRUE, val |-> op.additional_data]

(***************************************************************************)
(* The same properties for the tag lengths that `as u8` leaves unchanged.  *)
(***************************************************************************)
FitsU8 == out.tag_length.some /\ out.tag_length.val < U8_RANGE

RoundTripWhenTagLengthFitsU8 ==
    (phase = "roundtrip" /\ env.device = "Works" /\ FitsU8)
    => out.result = Ok(source.op.plaintext)

TamperedTagFailsWhenTagLengthFitsU8 ==
    (phase = "tampered" /\ env.device = "Works" /\ FitsU8)
    => out.result = Err("PsaErrorGenericError")

CiphertextLengthWhenTagLengthFitsU8 ==
    (phase = "encrypt" /\ out.result.kind = "Ok")
    => (/\ out.result.data = out.device_ret.buffer \o out.device_ret.tag
        /\ Len(out.device_ret.buffer) = Len(op.plaintext)
        /\ (FitsU8 => Len(out.result.data) = Len(op.plaintext) + out.tag_length.val))

DeviceTagLengthWhenFitsU8 ==
    (phase = "encrypt" /\ out.device_call.made /\ FitsU8)
    => out.device_call.algorithm.param.tag_length = out.tag_length

====
